---------------------------- MODULE Spec2Model ----------------------------
(***************************************************************************)
(* A model of itp.py: the Instagram caption/comment parser.                *)
(*                                                                         *)
(* Text is a sequence of characters, a character is a one-character        *)
(* string (the two full-width markers and the Latin-1 letter are named by  *)
(* their code point).  Offsets are 0-based and slices half-open, as in     *)
(* Python; Ch(s, i) is s[i].                                               *)
(***************************************************************************)
EXTENDS Integers, Sequences, FiniteSets, TLC

(***************************************************************************)
(* Python string primitives                                                *)
(***************************************************************************)
Min2(a, b) == IF a < b THEN a ELSE b

Max2(a, b) == IF a > b THEN a ELSE b

SetMax(S) == CHOOSE x \in S : \A y \in S : y <= x

SetMin(S) == CHOOSE x \in S : \A y \in S : x <= y

Ch(s, i) == s[i + 1]

\* an index of a slice, clamped as Python clamps it (negative: from the end)
PyIdx(n, i) == IF i < 0 THEN Max2(n + i, 0) ELSE Min2(i, n)

\* s[a:b]
PySlice(s, a, b) ==
    LET lo == PyIdx(Len(s), a)
        hi == PyIdx(Len(s), b)
    IN  IF lo >= hi THEN << >> ELSE SubSeq(s, lo + 1, hi)

\* s[a:]
PyFrom(s, a) == PySlice(s, a, Len(s))

\* s starts with lit at offset i
StartsAt(s, i, lit) ==
    /\ i + Len(lit) <= Len(s)
    /\ \A k \in 1..Len(lit) : s[i + k] = lit[k]

\* s.find(sub): the first offset of sub in s, or -1
PyFind(s, sub) ==
    LET hits == {i \in 0..(Len(s) - Len(sub)) : StartsAt(s, i, sub)}
    IN  IF hits = {} THEN -1 ELSE SetMin(hits)

\* s.rfind(sub): the last offset of sub in s, or -1
PyRFind(s, sub) ==
    LET hits == {i \in 0..(Len(s) - Len(sub)) : StartsAt(s, i, sub)}
    IN  IF hits = {} THEN -1 ELSE SetMax(hits)

\* s.rstrip('.')
RStripDots(s) ==
    LET keep == {n \in 0..Len(s) : \A k \in (n + 1)..Len(s) : s[k] = "."}
    IN  SubSeq(s, 1, SetMin(keep))

LowerLetters ==
    <<"a","b","c","d","e","f","g","h","i","j","k","l","m",
      "n","o","p","q","r","s","t","u","v","w","x","y","z">>

UpperLetters ==
    <<"A","B","C","D","E","F","G","H","I","J","K","L","M",
      "N","O","P","Q","R","S","T","U","V","W","X","Y","Z">>

Lower == {LowerLetters[i] : i \in 1..26}

Upper == {UpperLetters[i] : i \in 1..26}

Digit == {"0","1","2","3","4","5","6","7","8","9"}

\* c.lower() of one character
LowerChar(c) ==
    IF c \in Upper
    THEN LowerLetters[CHOOSE i \in 1..26 : UpperLetters[i] = c]
    ELSE c

\* s.lower()
PyLower(s) == [i \in 1..Len(s) |-> LowerChar(s[i])]

\* s starts, ignoring case, with the lower-case literal lit at offset i
StartsAtCI(s, i, lit) ==
    /\ i + Len(lit) <= Len(s)
    /\ \A k \in 1..Len(lit) : LowerChar(s[i + k]) = lit[k]

\* the end of the longest run of characters of class C that starts at i
RunEnd(s, i, C(_)) ==
    SetMin({j \in i..Len(s) : j = Len(s) \/ ~C(s[j + 1])})

(***************************************************************************)
(* The pattern library, lines 31-70.  Every pattern is compiled with       *)
(* re.IGNORECASE, so a class that names a-z holds A-Z as well.             *)
(***************************************************************************)
AT_SIGNS == {"@", "U+FF20"}

HASH_SIGNS == <<"#", "U+FF03">>

\* the letters of À-ÿ the model holds
Latin1Letters == {"U+00E9"}

WhiteSpace == {" ", "\n", "\t"}

Letter(c) == c \in Lower \cup Upper

\* \w under re.ASCII
WordChar(c) == c \in Lower \cup Upper \cup Digit \cup {"_"}

UTF_CHARS(c) == c \in Lower \cup Upper \cup Digit \cup {"_"} \cup Latin1Letters

\* [a-z0-9_.]
UsernameChar(c) == c \in Lower \cup Upper \cup Digit \cup {"_", "."}

\* [a-z0-9\x80-\xFF-]
ListChar(c) == c \in Lower \cup Upper \cup Digit \cup {"-"} \cup Latin1Letters

\* [0-9A-Z_]
HashtagHead(c) == c \in Lower \cup Upper \cup Digit \cup {"_"}

\* [^/"':!=] | ^ | \:   (the one-character alternatives)
PRE_CHARS(c) == c \notin {"/", "\"", "'", ":", "!", "="} \/ c = ":"

\* [\.-] | [^\s_\!\.\/]
DOMAIN_CHARS(c) ==
    c \in {".", "-"} \/ c \notin (WhiteSpace \cup {"_", "!", ".", "/"})

PathPunct ==
    {"!", "*", "'", "(", ")", ";", ":", "=", "+", "$", "/", "%", "#",
     "[", "]", "-", "_", ",", "~", "@"}

\* the character a PATH_CHARS unit ends with
PathChar(c) == UTF_CHARS(c) \/ c \in PathPunct

QUERY_CHARS(c) ==
    c \in Lower \cup Upper \cup Digit \cup
          {"!", "*", "'", "(", ")", ";", ":", "&", "=", "+", "$", "/", "%",
           "#", "[", "]", "-", "_", ".", ",", "~"}

PATH_ENDING_CHARS(c) == UTF_CHARS(c) \/ c \in {")", "=", "#", "/"}

QUERY_ENDING_CHARS(c) ==
    c \in Lower \cup Upper \cup Digit \cup {"_", "&", "=", "#"}

username_max == 30

list_max == 79

reply_max == 20

IANA_ONE_LETTER_DOMAINS ==
    { <<"x",".","c","o","m">>, <<"x",".","o","r","g">>,
      <<"z",".","c","o","m">>, <<"q",".","n","e","t">>,
      <<"q",".","c","o","m">>, <<"i",".","n","e","t">> }

(***************************************************************************)
(* Matching.  A match is a record of offsets into the scanned string; each *)
(* operator returns what re finds first: the leftmost match, greedy        *)
(* quantifiers giving back only what the rest of the pattern forces.       *)
(***************************************************************************)
NoMatch == [ok |-> FALSE]

\* (https?://|www\.) at offset b: the length of the scheme marker, or 0
SchemeLen(s, b) ==
    IF StartsAtCI(s, b, <<"h","t","t","p","s",":","/","/">>) THEN 8
    ELSE IF StartsAtCI(s, b, <<"h","t","t","p",":","/","/">>) THEN 7
    ELSE IF StartsAtCI(s, b, <<"w","w","w",".">>) THEN 4
    ELSE 0

\* The offsets k of a dot that can end ([\.-]|[^\s_\!\.\/])+ started at d0:
\* inside the run, after at least one character, followed by two letters.
TldDots(s, d0) ==
    LET e == RunEnd(s, d0, DOMAIN_CHARS)
    IN  {k \in (d0 + 1)..(e - 1) :
            /\ Ch(s, k) = "."
            /\ k + 2 < Len(s)
            /\ Letter(Ch(s, k + 1))
            /\ Letter(Ch(s, k + 2))}

IsDigit(c) == c \in Digit

\* \.[a-z]{2,}(?::[0-9]+)? from the dot at k: the end of the domain
DomainEnd(s, k) ==
    LET tld == RunEnd(s, k + 1, Letter)
    IN  IF /\ tld + 1 < Len(s)
           /\ Ch(s, tld) = ":"
           /\ IsDigit(Ch(s, tld + 1))
        THEN RunEnd(s, tld + 1, IsDigit)
        ELSE tld

PathUnitChar(c) == PathChar(c) \/ c \in {".", ","}

\* s[p0:j] is a sequence of PATH_CHARS units: [\.,]? and one path character
InPathLang(s, p0, j) ==
    \A q \in p0..(j - 1) :
        \/ PathChar(Ch(s, q))
        \/ /\ Ch(s, q) \in {".", ","}
           /\ q + 1 < j
           /\ PathChar(Ch(s, q + 1))

\* (\/(PATH_CHARS*PATH_ENDING_CHARS)?)? at offset p: the end of the path
PathEnd(s, p) ==
    IF p < Len(s) /\ Ch(s, p) = "/"
    THEN LET lim  == RunEnd(s, p + 1, PathUnitChar)
             ends == {j \in (p + 1)..(lim - 1) :
                         /\ PATH_ENDING_CHARS(Ch(s, j))
                         /\ InPathLang(s, p + 1, j)}
         IN  IF ends = {} THEN p + 1 ELSE SetMax(ends) + 1
    ELSE p

\* (\?QUERY_CHARS*QUERY_ENDING_CHARS)? at offset p: the end of the query
QueryEnd(s, p) ==
    IF p < Len(s) /\ Ch(s, p) = "?"
    THEN LET lim  == RunEnd(s, p + 1, QUERY_CHARS)
             ends == {j \in (p + 1)..(lim - 1) : QUERY_ENDING_CHARS(Ch(s, j))}
         IN  IF ends = {} THEN p ELSE SetMax(ends) + 1
    ELSE p

\* group 3 of URL_REGEX at offset b, the match starting at offset i
UrlBody(s, i, b) ==
    LET n == SchemeLen(s, b)
    IN  IF n = 0 \/ TldDots(s, b + n) = {}
        THEN NoMatch
        ELSE LET k    == SetMax(TldDots(s, b + n))
                 dend == DomainEnd(s, k)
             IN  [ok |-> TRUE, start |-> i, end |-> QueryEnd(s, PathEnd(s, dend)),
                  scheme |-> b, d0 |-> b + n, dend |-> dend]

\* URL_REGEX matched at offset i: group 2 is one character, or empty at the
\* start of the string
UrlMatchAt(s, i) ==
    IF i < Len(s) /\ PRE_CHARS(Ch(s, i)) /\ UrlBody(s, i, i + 1).ok
    THEN UrlBody(s, i, i + 1)
    ELSE IF i = 0 THEN UrlBody(s, 0, 0)
    ELSE NoMatch

\* USERNAME_REGEX matched at offset i; list tells whether group 2 took part
UserMatchAt(s, i) ==
    IF /\ i + 1 < Len(s)
       /\ Ch(s, i) \in AT_SIGNS
       /\ (i = 0 \/ ~WordChar(Ch(s, i - 1)))
       /\ UsernameChar(Ch(s, i + 1))
    THEN LET nameEnd == Min2(RunEnd(s, i + 1, UsernameChar), i + 1 + username_max)
             list    == /\ nameEnd + 1 < Len(s)
                        /\ Ch(s, nameEnd) = "/"
                        /\ Letter(Ch(s, nameEnd + 1))
         IN  [ok |-> TRUE, start |-> i, list |-> list,
              end |-> IF list
                      THEN Min2(RunEnd(s, nameEnd + 2, ListChar),
                                nameEnd + 2 + list_max)
                      ELSE nameEnd]
    ELSE NoMatch

\* HASHTAG_REGEX matched at offset i
TagMatchAt(s, i) ==
    IF /\ i + 1 < Len(s)
       /\ Ch(s, i) \in {HASH_SIGNS[1], HASH_SIGNS[2]}
       /\ HashtagHead(Ch(s, i + 1))
    THEN [ok |-> TRUE, start |-> i,
          end |-> RunEnd(s, RunEnd(s, i + 1, HashtagHead), UTF_CHARS)]
    ELSE NoMatch

\* pattern.search(s, from): the leftmost match at or after offset from
Search(s, from, MatchAt(_, _)) ==
    LET at == {i \in from..Len(s) : MatchAt(s, i).ok}
    IN  IF at = {} THEN NoMatch ELSE MatchAt(s, SetMin(at))

SPACES(c) == c \in {" "}

ReplyChar(c) == c \in Lower \cup Upper \cup Digit \cup {"_"}

\* None: no character is named None, so no text equals it
None == <<"None">>

\* lines 127-128: REPLY_REGEX.match(text), group 1 or None
Reply(text) ==
    LET a == RunEnd(text, 0, SPACES)
    IN  IF /\ a + 1 < Len(text)
           /\ Ch(text, a) \in AT_SIGNS
           /\ ReplyChar(Ch(text, a + 1))
        THEN PySlice(text, a + 1,
                     Min2(RunEnd(text, a + 1, ReplyChar), a + 1 + reply_max))
        ELSE None

(***************************************************************************)
(* Formatters and the escaper, lines 261-297.                              *)
(***************************************************************************)
RECURSIVE Flatten(_)
\* ''.join(parts)
Flatten(parts) ==
    IF parts = << >> THEN << >> ELSE Head(parts) \o Flatten(Tail(parts))

EscapeChar(c) ==
    CASE c = "&"  -> <<"&","a","m","p",";">>
      [] c = "\"" -> <<"&","q","u","o","t",";">>
      [] c = "'"  -> <<"&","a","p","o","s",";">>
      [] c = ">"  -> <<"&","g","t",";">>
      [] c = "<"  -> <<"&","l","t",";">>
      [] OTHER    -> <<c>>

escape(text) == Flatten([i \in 1..Len(text) |-> EscapeChar(text[i])])

\* the bytes of c.encode('utf-8'), percent-encoded
Utf8Percent == [c \in Latin1Letters |-> <<"%","C","3","%","A","9">>]

QuoteSafe == Lower \cup Upper \cup Digit \cup {"_", ".", "-", "~", "/"}

QuoteChar(c) == IF c \in QuoteSafe THEN <<c>> ELSE Utf8Percent[c]

\* urllib.parse.quote(text.encode('utf-8'))
quote(text) == Flatten([i \in 1..Len(text) |-> QuoteChar(text[i])])

Ellipsis == <<".",".",".">>

\* a truncation that cuts at the limit and looks for no character reference
ShortenedAtTheCut(text, max_url_length) ==
    IF Len(text) > max_url_length /\ max_url_length # -1
    THEN PySlice(text, 0, max_url_length - 3) \o Ellipsis
    ELSE text

_shorten_url(text, max_url_length) ==
    IF Len(text) > max_url_length /\ max_url_length # -1
    THEN LET cut   == PySlice(text, 0, max_url_length - 3)
             amp   == PyRFind(cut, <<"&">>)
             close == PyRFind(cut, <<";">>)
         IN  (IF amp # -1 /\ (close = -1 \/ close < amp)
              THEN PySlice(cut, 0, amp)
              ELSE cut) \o Ellipsis
    ELSE text

AnchorOpen == <<"<","a"," ","h","r","e","f","=","\"">>

AnchorClose == <<"<","/","a",">">>

InstagramUrl ==
    <<"h","t","t","p","s",":","/","/","i","n","s","t","a","g","r","a","m",
      ".","c","o","m","/">>

TagsPath == <<"e","x","p","l","o","r","e","/","t","a","g","s","/">>

format_tag(tag, text) ==
    AnchorOpen \o InstagramUrl \o TagsPath \o quote(text) \o <<"/","\"",">">>
        \o <<tag>> \o text \o AnchorClose

format_username(at_char, user) ==
    AnchorOpen \o InstagramUrl \o user \o <<"\"",">">>
        \o at_char \o user \o AnchorClose

format_url(url, text) ==
    AnchorOpen \o escape(url) \o <<"\"",">">> \o text \o AnchorClose

(***************************************************************************)
(* The callbacks of the three passes, lines 148-259.  Each takes the       *)
(* scanned string and a match in it and returns ret, what re.sub puts in   *)
(* place of the match, and add, the entities it appends to its list.  An   *)
(* entity is the extracted text, or <<text, <<start, end>>>> with spans.   *)
(* 'if self._html' tests a bound method, which is always true: ret is      *)
(* computed in both modes.                                                 *)
(***************************************************************************)
Entity(text, span, include_spans) ==
    IF include_spans THEN <<text, span>> ELSE text

\* a validator that knows .com and .org only
DomainRejectedComOrg(domain) ==
    \/ domain[1] \in {".", "-"}
    \/ /\ Len(domain) = 5
       /\ PyLower(PySlice(domain, -4, Len(domain)))
              \in { <<".","c","o","m">>, <<".","o","r","g">> }
       /\ PyLower(domain) \notin IANA_ONE_LETTER_DOMAINS

\* lines 156-164: the match is passed through, no entity is recorded
DomainRejected(domain) ==
    \/ domain[1] \in {".", "-"}
    \/ /\ Len(domain) = 5
       /\ PyLower(PySlice(domain, -4, Len(domain)))
              \in { <<".","c","o","m">>, <<".","o","r","g">>, <<".","n","e","t">> }
       /\ PyLower(domain) \notin IANA_ONE_LETTER_DOMAINS

\* lines 166-176: <<pre, url, full_url>>
SplitUrl(mat) ==
    LET http == PyFind(mat, <<"h","t","t","p">>)
        www  == PyFind(PyLower(mat), <<"w","w","w">>)
    IN  IF http # -1
        THEN <<PySlice(mat, 0, http), PyFrom(mat, http), PyFrom(mat, http)>>
        ELSE <<PySlice(mat, 0, www), PyFrom(mat, www),
               <<"h","t","t","p","s",":","/","/">> \o PyFrom(mat, www)>>

_parse_urls(s, m, include_spans, max_url_length) ==
    LET mat    == PySlice(s, m.start, m.end)
        domain == PySlice(s, m.d0, m.dend)
        parts  == SplitUrl(mat)
    IN  IF DomainRejected(domain)
        THEN [ret |-> mat, add |-> << >>]
        ELSE [ret |-> parts[1] \o format_url(parts[3],
                          _shorten_url(escape(parts[2]), max_url_length)),
              add |-> <<Entity(parts[2],
                               <<m.start + Len(parts[1]), m.end>>,
                               include_spans)>>]

\* lines 190-210: <<username, extra>>, or <<None, None>>
_parse_username(string) ==
    IF string[1] = "."
    THEN <<None, None>>
    ELSE LET stripped == RStripDots(string)
             extra1   == IF Len(stripped) # Len(string)
                         THEN PyFrom(string, Len(stripped))
                         ELSE << >>
             index    == PyFind(stripped, <<".", ".">>)
         IN  IF index > 0
             THEN <<PySlice(stripped, 0, index), extra1 \o PyFrom(stripped, index)>>
             ELSE <<stripped, extra1>>

_parse_users(s, m, include_spans) ==
    LET mat    == PySlice(s, m.start, m.end)
        parsed == _parse_username(PyFrom(mat, 1))
    IN  IF m.list \/ parsed[1] = None
        THEN [ret |-> mat, add |-> << >>]
        ELSE [ret |-> format_username(PySlice(mat, 0, 1), parsed[1]) \o parsed[2],
              add |-> <<Entity(parsed[1], <<m.start, m.end>>, include_spans)>>]

\* lines 242-247: <<pos, tag>>, the last marker found in the match
FindTagSign(mat) ==
    IF PyRFind(mat, <<HASH_SIGNS[1]>>) # -1
    THEN <<PyRFind(mat, <<HASH_SIGNS[1]>>), HASH_SIGNS[1]>>
    ELSE <<PyRFind(mat, <<HASH_SIGNS[2]>>), HASH_SIGNS[2]>>

_parse_tags(s, m, include_spans) ==
    LET mat  == PySlice(s, m.start, m.end)
        sign == FindTagSign(mat)
        pre  == PySlice(mat, 0, sign[1])
        text == PyFrom(mat, sign[1] + 1)
    IN  [ret |-> pre \o format_tag(sign[2], text),
         add |-> <<Entity(text, <<m.start + Len(pre), m.end>>, include_spans)>>]

(***************************************************************************)
(* The parser instance and its callers.                                    *)
(*                                                                         *)
(* A list is an object of the heap, named by its index: two names of one   *)
(* list see each other's appends.  A frame is one caller's parse call in   *)
(* progress: the pass it is in (pc), the string that pass scans (src), the *)
(* offset re.sub has reached in it (pos), the output re.sub has built      *)
(* (out), and the last callback invocation (cb).                           *)
(***************************************************************************)
VARIABLES
    max_url_length,   \* Parser._max_url_length
    include_spans,    \* Parser._include_spans
    heap,             \* the list objects
    _urls,            \* Parser._urls: a list, or 0 before the first parse
    _users,           \* Parser._users
    _tags,            \* Parser._tags
    frame,            \* the parse call of each caller
    returned,         \* the ParseResult objects returned, with their call
    pool,             \* the texts the callers pass to parse
    arg,              \* the argument of a helper called on its own
    ret               \* and what it returned

vars ==
    <<max_url_length, include_spans, heap, _urls, _users, _tags, frame,
      returned, pool, arg, ret>>

Threads == {1, 2}

MaxCalls == 2

NoCallback == [kind |-> "none"]

IdleFrame ==
    [pc |-> "idle", text |-> << >>, html |-> FALSE, src |-> << >>, pos |-> 0,
     out |-> << >>, reply |-> None, cb |-> NoCallback]

Deref(ref) == heap[ref]

\* a parse that empties the lists of the parse before it and fills them again
ClearedAccumulators(h, urls, users, tags) ==
    IF urls = 0
    THEN <<h \o << << >>, << >>, << >> >>, Len(h) + 1, Len(h) + 2, Len(h) + 3>>
    ELSE <<[h EXCEPT ![urls] = << >>, ![users] = << >>, ![tags] = << >>],
           urls, users, tags>>

\* lines 123-125: three new lists, <<heap, _urls, _users, _tags>>
NewAccumulators(h, urls, users, tags) ==
    <<h \o << << >>, << >>, << >> >>, Len(h) + 1, Len(h) + 2, Len(h) + 3>>

\* 'x if x else []' of lines 106-109: <<heap, the list kept>>
ListOrNew(h, ref) ==
    IF h[ref] # << >> THEN <<h, ref>> ELSE <<Append(h, << >>), Len(h) + 1>>

\* ParseResult.__init__: <<heap, the object>>
ParseResult(h, urls, users, reply, tags, html) ==
    LET a == ListOrNew(h, urls)
        b == ListOrNew(a[1], users)
        c == ListOrNew(b[1], tags)
    IN  <<c[1], [urls |-> a[2], users |-> b[2], reply |-> reply,
                 tags |-> c[2], html |-> html]>>

CallsBegun ==
    Len(returned) + Cardinality({t \in Threads : frame[t].pc # "idle"})

\* lines 121-130: parse is entered, the accumulators are reset
Begin(t, text, html) ==
    /\ frame[t].pc = "idle"
    /\ CallsBegun < MaxCalls
    /\ LET acc == NewAccumulators(heap, _urls, _users, _tags)
       IN  /\ heap' = acc[1]
           /\ _urls' = acc[2]
           /\ _users' = acc[3]
           /\ _tags' = acc[4]
    /\ frame' = [frame EXCEPT ![t] =
                    [pc |-> "urls", text |-> text, html |-> html, src |-> text,
                     pos |-> 0, out |-> << >>, reply |-> Reply(text),
                     cb |-> NoCallback]]
    /\ UNCHANGED <<max_url_length, include_spans, returned, pool, arg, ret>>

\* one replacement of re.sub: the callback runs on the next match
Replace(t, list, m, cb, kind) ==
    /\ heap' = [heap EXCEPT ![list] = @ \o cb.add]
    /\ frame' = [frame EXCEPT ![t].pos = m.end,
                              ![t].out = @ \o PySlice(frame[t].src, frame[t].pos, m.start)
                                           \o cb.ret,
                              ![t].cb = [kind |-> kind, m |-> m,
                                         ret |-> cb.ret, add |-> cb.add]]
    /\ UNCHANGED <<max_url_length, include_spans, _urls, _users, _tags,
                   returned, pool, arg, ret>>

\* re.sub returns: _html hands the result to the next pass, _text drops it
NextPass(t, pc) ==
    /\ frame' = [frame EXCEPT ![t].pc = pc,
                              ![t].src = IF frame[t].html
                                         THEN frame[t].out \o PyFrom(frame[t].src, frame[t].pos)
                                         ELSE frame[t].text,
                              ![t].pos = 0,
                              ![t].out = << >>,
                              ![t].cb = NoCallback]
    /\ UNCHANGED <<max_url_length, include_spans, heap, _urls, _users, _tags,
                   returned, pool, arg, ret>>

UrlStep(t) ==
    /\ frame[t].pc = "urls"
    /\ LET m == Search(frame[t].src, frame[t].pos, UrlMatchAt)
       IN  /\ m.ok
           /\ Replace(t, _urls, m,
                      _parse_urls(frame[t].src, m, include_spans, max_url_length),
                      "url")

UrlDone(t) ==
    /\ frame[t].pc = "urls"
    /\ ~Search(frame[t].src, frame[t].pos, UrlMatchAt).ok
    /\ NextPass(t, "users")

UserStep(t) ==
    /\ frame[t].pc = "users"
    /\ LET m == Search(frame[t].src, frame[t].pos, UserMatchAt)
       IN  /\ m.ok
           /\ Replace(t, _users, m,
                      _parse_users(frame[t].src, m, include_spans), "user")

UserDone(t) ==
    /\ frame[t].pc = "users"
    /\ ~Search(frame[t].src, frame[t].pos, UserMatchAt).ok
    /\ NextPass(t, "tags")

TagStep(t) ==
    /\ frame[t].pc = "tags"
    /\ LET m == Search(frame[t].src, frame[t].pos, TagMatchAt)
       IN  /\ m.ok
           /\ Replace(t, _tags, m,
                      _parse_tags(frame[t].src, m, include_spans), "tag")

TagDone(t) ==
    /\ frame[t].pc = "tags"
    /\ ~Search(frame[t].src, frame[t].pos, TagMatchAt).ok
    /\ NextPass(t, "return")

\* lines 131-132: the ParseResult is built from the instance's lists
Return(t) ==
    /\ frame[t].pc = "return"
    /\ LET r == ParseResult(heap, _urls, _users, frame[t].reply, _tags,
                            IF frame[t].html THEN frame[t].src ELSE None)
       IN  /\ heap' = r[1]
           /\ returned' = Append(returned,
                                 [text |-> frame[t].text, html |-> frame[t].html,
                                  result |-> r[2]])
    /\ frame' = [frame EXCEPT ![t] = IdleFrame]
    /\ UNCHANGED <<max_url_length, include_spans, _urls, _users, _tags,
                   pool, arg, ret>>

Step(t) ==
    \/ \E text \in pool, html \in BOOLEAN : Begin(t, text, html)
    \/ UrlStep(t)
    \/ UrlDone(t)
    \/ UserStep(t)
    \/ UserDone(t)
    \/ TagStep(t)
    \/ TagDone(t)
    \/ Return(t)

(***************************************************************************)
(* The helpers called on their own.                                        *)
(***************************************************************************)
NotCalled == [called |-> FALSE]

CallParseUsername ==
    /\ ~ret.called
    /\ arg.fn = "_parse_username"
    /\ ret' = [called |-> TRUE, value |-> _parse_username(arg.string)]
    /\ UNCHANGED <<max_url_length, include_spans, heap, _urls, _users, _tags,
                   frame, returned, pool, arg>>

CallShortenUrl ==
    /\ ~ret.called
    /\ arg.fn = "_shorten_url"
    /\ ret' = [called |-> TRUE, value |-> _shorten_url(arg.text, max_url_length)]
    /\ UNCHANGED <<max_url_length, include_spans, heap, _urls, _users, _tags,
                   frame, returned, pool, arg>>

(***************************************************************************)
(* Inputs.                                                                 *)
(***************************************************************************)
\* every sequence over S of length lo..hi
Strings(S, lo, hi) == UNION {[1..n -> S] : n \in lo..hi}

Schemes ==
    { <<"w","w","w",".">>, <<"h","t","t","p",":","/","/">>,
      <<"H","T","T","P",":","/","/">> }

Domains ==
    { <<"o",".","c","o","m">>, <<"o",".","n","e","t">>, <<"x",".","c","o","m">>,
      <<"X",".","O","R","G">>,
      <<"a","b",".","c","o","m">>, <<"-","a",".","c","o","m">>,
      <<".",".","c","o","m">> }

Leads == { << >>, <<" ">> }

Tails ==
    { << >>, <<"/","#","a">>, <<" ","@","a",".",".","b",".">>,
      <<"?","x","=","1","&","y","=","2">>,
      <<" ","w","w","w",".","x",".","c","o","m">> }

\* one candidate URL in its surroundings
UrlTexts ==
    {l \o s \o d \o t : l \in Leads, s \in Schemes, d \in Domains, t \in Tails}

\* captions without a URL
PlainTexts ==
    { << >>, <<"@","a">>, <<"#","b">>, <<"@","a",".","b",".","."," ","#","b">>,
      <<" ","@","a","/","l"," ","x","@","b"," ","@",".","c">>,
      <<"U+FF20","a","_","1"," ","U+FF03","b","U+00E9","#","c">>,
      <<"@","a",".",".","b","#","1","a"," ","#","#">> }

\* the texts of callers that parse different texts on one instance
MixedTexts ==
    { <<"@","a"," ","#","b">>, <<"#","c">>, <<"w","w","w",".","x",".","c","o","m">>,
      <<"@","d","."," ","h","t","t","p",":","/","/","a","b",".","c","o","m","/","#","e">>,
      <<"n","o","n","e">> }

\* a caller parses one text, again and again, or draws from the mixed texts
Pools == {{text} : text \in UrlTexts \cup PlainTexts} \cup {MixedTexts}

MaxUrlLengths == {30, 12}

InitWith(pools, lengths, args) ==
    /\ max_url_length \in lengths
    /\ include_spans \in BOOLEAN
    /\ heap = << >>
    /\ _urls = 0
    /\ _users = 0
    /\ _tags = 0
    /\ frame = [t \in Threads |-> IdleFrame]
    /\ returned = << >>
    /\ pool \in pools
    /\ arg \in args
    /\ ret = NotCalled

\* a Parser is constructed; one caller at a time calls parse on it
Init == InitWith(Pools, MaxUrlLengths, {[fn |-> "parse"]})

Next == Step(1)

Spec == Init /\ [][Next]_vars

\* two callers call parse on the instance, nothing keeps their steps apart
InitConc == InitWith({MixedTexts}, {30}, {[fn |-> "parse"]})

NextConc == \E t \in Threads : Step(t)

SpecConc == InitConc /\ [][NextConc]_vars

MaxCandidate == 5

CandidateChars == {"a", ".", "_"}

\* _parse_username is called on a candidate the username pattern can capture
InitUsername ==
    InitWith({{}}, {30},
             {[fn |-> "_parse_username", string |-> c] :
                  c \in Strings(CandidateChars, 1, MaxCandidate)})

NextUsername == CallParseUsername

SpecUsername == InitUsername /\ [][NextUsername]_vars

MaxDisplay == 7

MaxLimit == 7

DisplayChars == {"a", "&", ";"}

\* _shorten_url is called on a display text, on a Parser of any max_url_length
InitShorten ==
    InitWith({{}}, -1..MaxLimit,
             {[fn |-> "_shorten_url", text |-> x] :
                  x \in Strings(DisplayChars, 0, MaxDisplay)})

NextShorten == CallShortenUrl

SpecShorten == InitShorten /\ [][NextShorten]_vars

(***************************************************************************)
(* What the claims speak of.                                               *)
(***************************************************************************)
\* the lists and fields a returned ParseResult holds now
Value(r) ==
    [urls |-> Deref(r.result.urls), users |-> Deref(r.result.users),
     reply |-> r.result.reply, tags |-> Deref(r.result.tags),
     html |-> r.result.html]

RECURSIVE SubUrls(_, _, _, _)
\* URL_REGEX.sub run alone on s from offset pos: <<output, entities>>
SubUrls(s, pos, spans, limit) ==
    LET m == Search(s, pos, UrlMatchAt)
    IN  IF ~m.ok
        THEN <<PyFrom(s, pos), << >> >>
        ELSE LET cb   == _parse_urls(s, m, spans, limit)
                 rest == SubUrls(s, m.end, spans, limit)
             IN  <<PySlice(s, pos, m.start) \o cb.ret \o rest[1], cb.add \o rest[2]>>

RECURSIVE SubUsers(_, _, _)
SubUsers(s, pos, spans) ==
    LET m == Search(s, pos, UserMatchAt)
    IN  IF ~m.ok
        THEN <<PyFrom(s, pos), << >> >>
        ELSE LET cb   == _parse_users(s, m, spans)
                 rest == SubUsers(s, m.end, spans)
             IN  <<PySlice(s, pos, m.start) \o cb.ret \o rest[1], cb.add \o rest[2]>>

RECURSIVE SubTags(_, _, _)
SubTags(s, pos, spans) ==
    LET m == Search(s, pos, TagMatchAt)
    IN  IF ~m.ok
        THEN <<PyFrom(s, pos), << >> >>
        ELSE LET cb   == _parse_tags(s, m, spans)
                 rest == SubTags(s, m.end, spans)
             IN  <<PySlice(s, pos, m.start) \o cb.ret \o rest[1], cb.add \o rest[2]>>

\* what parse(text, html) returns on a Parser nothing else has used
FreshParse(text, html, spans, limit) ==
    LET u  == SubUrls(text, 0, spans, limit)
        us == SubUsers(IF html THEN u[1] ELSE text, 0, spans)
        t  == SubTags(IF html THEN us[1] ELSE text, 0, spans)
    IN  [urls |-> u[2], users |-> us[2], reply |-> Reply(text), tags |-> t[2],
         html |-> IF html THEN t[1] ELSE None]

Results == {returned[i] : i \in 1..Len(returned)}

\* the same text parsed with HTML (pair[1]) and without (pair[2])
ModePairs ==
    {pair \in Results \X Results :
        pair[1].text = pair[2].text /\ pair[1].html /\ ~pair[2].html}

\* the extracted texts of a list of entities
Texts(list) ==
    [k \in 1..Len(list) |-> IF include_spans THEN list[k][1] ELSE list[k]]

\* C1: with include_spans, every span (start, end) of every entity returned
\* satisfies 0 <= start <= end <= len(text), and text[start:end] is the
\* entity's extracted text, text being the input of the call.
C1_SpanSlicesEntityText ==
    include_spans =>
        \A r \in Results :
            LET v   == Value(r)
                all == v.urls \o v.users \o v.tags
            IN  \A k \in 1..Len(all) :
                    LET start == all[k][2][1]
                        end   == all[k][2][2]
                    IN  /\ 0 <= start
                        /\ start <= end
                        /\ end <= Len(r.text)
                        /\ PySlice(r.text, start, end) = all[k][1]

\* C2: for every candidate _parse_username does not reject, the username and
\* the extra text it returns, joined, are the candidate.
C2_UsernamePlusExtraIsCandidate ==
    (ret.called /\ ret.value[1] # None) =>
        ret.value[1] \o ret.value[2] = arg.string

\* C3: parse(text, html=False) returns no html and the urls, users and tags
\* that parse(text, html=True) returns, in the same order.
C3_SameListsInBothModes ==
    \A pair \in ModePairs :
        /\ Value(pair[2]).html = None
        /\ Value(pair[2]).urls = Value(pair[1]).urls
        /\ Value(pair[2]).users = Value(pair[1]).users
        /\ Value(pair[2]).tags = Value(pair[1]).tags

\* p holds an & that no ; follows
Unterminated(p) ==
    \E k \in 1..Len(p) : p[k] = "&" /\ \A j \in (k + 1)..Len(p) : p[j] # ";"

\* C4: for every limit >= -1, _shorten_url returns the text when the limit is
\* -1 or the text is within it, and otherwise p + '...', p a prefix of the text
\* of at most limit - 3 characters in which every & is followed by a ;.
C4_ShortenedWithinLimit ==
    ret.called =>
        IF max_url_length = -1 \/ Len(arg.text) <= max_url_length
        THEN ret.value = arg.text
        ELSE \E n \in 0..Len(arg.text) :
                /\ n <= max_url_length - 3
                /\ ret.value = SubSeq(arg.text, 1, n) \o Ellipsis
                /\ ~Unterminated(SubSeq(arg.text, 1, n))

\* every & of the text opens a reference that a ; closes before the next &,
\* as in the texts escape returns
ClosedReferences(text) ==
    \A k \in 1..Len(text) :
        text[k] = "&" =>
            \E j \in (k + 1)..Len(text) :
                /\ text[j] = ";"
                /\ \A i \in (k + 1)..(j - 1) : text[i] # "&"

\* C4, amended: for a limit of -1 or at least 3 and a display text in which
\* every & is closed by a ; before the next &, _shorten_url returns the text
\* when the limit is -1 or the text is within it, and otherwise p + '...', p a
\* prefix of the text of at most limit - 3 characters in which every & is
\* followed by a ;.
C4_ShortenedKeepsClosedReferences ==
    (/\ ret.called
     /\ max_url_length = -1 \/ max_url_length >= 3
     /\ ClosedReferences(arg.text)) =>
        IF max_url_length = -1 \/ Len(arg.text) <= max_url_length
        THEN ret.value = arg.text
        ELSE \E n \in 0..Len(arg.text) :
                /\ n <= max_url_length - 3
                /\ ret.value = SubSeq(arg.text, 1, n) \o Ellipsis
                /\ ~Unterminated(SubSeq(arg.text, 1, n))

\* a text was cut inside a reference and the cut moved back before its &
C4_Witness ==
    /\ ret.called
    /\ max_url_length >= 3
    /\ ClosedReferences(arg.text)
    /\ Len(arg.text) > max_url_length
    /\ Len(ret.value) < max_url_length
    /\ Len(ret.value) > 3

\* C5: of calls made one after another on one instance, every ParseResult
\* returned holds, when it is returned and after every later call, what a
\* fresh Parser of the same configuration returns for its text and html flag.
C5_EachCallIsPure ==
    \A r \in Results :
        Value(r) = FreshParse(r.text, r.html, include_spans, max_url_length)

\* two calls on different texts have returned, each with a hashtag of its own
C5_Witness ==
    /\ Len(returned) = 2
    /\ returned[1].text # returned[2].text
    /\ Value(returned[1]).tags # << >>
    /\ Value(returned[2]).tags # << >>
    /\ Value(returned[1]).tags # Value(returned[2]).tags

\* the domain the last URL callback of caller t captured
CapturedDomain(t) ==
    PySlice(frame[t].src, frame[t].cb.m.d0, frame[t].cb.m.dend)

ComOrgNet == { <<".","c","o","m">>, <<".","o","r","g">>, <<".","n","e","t">> }

\* the domains C6 says are rejected (a domain is on the allowlist in any case
\* of its letters)
C6_Rejects(d) ==
    \/ /\ Len(d) = 5
       /\ PyLower(SubSeq(d, 2, 5)) \in ComOrgNet
       /\ PyLower(d) \notin IANA_ONE_LETTER_DOMAINS
    \/ d[1] = "."
    \/ d[1] = "-"

C7_UserSpanEndsAtUsername ==
    include_spans =>
        \A r \in Results :
            ~r.html =>
                LET users == Value(r).users
                IN  \A k \in 1..Len(users) :
                        LET start == users[k][2][1]
                            end   == users[k][2][2]
                        IN  /\ start < Len(r.text)
                            /\ Ch(r.text, start) \in AT_SIGNS
                            /\ end = start + 1 + Len(users[k][1])

Spans(list) == [k \in 1..Len(list) |-> list[k][2]]

\* C8: with include_spans, parse(text, html=True) reports for each username
\* and hashtag the span parse(text, html=False) reports (compared where both
\* calls extract the same usernames and hashtags).
C8_SameSpansInBothModes ==
    include_spans =>
        \A pair \in ModePairs :
            LET with    == Value(pair[1])
                without == Value(pair[2])
            IN  /\ Texts(with.users) = Texts(without.users) =>
                       Spans(with.users) = Spans(without.users)
                /\ Texts(with.tags) = Texts(without.tags) =>
                       Spans(with.tags) = Spans(without.tags)

\* C9: every accepted URL match is split at its scheme marker: the prefix is
\* what the match holds before the marker, the entity recorded is the match
\* from the marker on, the link target is that entity, after 'https://' when
\* the marker is www. and only then.
C9_SplitAtSchemeMarker ==
    \A t \in Threads :
        (/\ frame[t].pc = "urls"
         /\ frame[t].cb.kind = "url"
         /\ frame[t].cb.add # << >>) =>
            LET f      == frame[t]
                m      == f.cb.m
                prefix == PySlice(f.src, m.start, m.scheme)
                entity == PySlice(f.src, m.scheme, m.end)
                target == IF StartsAtCI(f.src, m.scheme, <<"w","w","w",".">>)
                          THEN <<"h","t","t","p","s",":","/","/">> \o entity
                          ELSE entity
            IN  /\ Len(prefix) <= 1
                /\ Texts(f.cb.add) = <<entity>>
                /\ f.cb.ret = prefix \o format_url(target,
                                  _shorten_url(escape(entity), max_url_length))

\* C10: when the steps of two parse calls on one instance interleave, each
\* call still returns the urls, users and tags of its own text, in scan order.
C10_ConcurrentCallsKeepTheirOwn ==
    \A r \in Results :
        LET own == FreshParse(r.text, r.html, include_spans, max_url_length)
        IN  /\ Value(r).urls = own.urls
            /\ Value(r).users = own.users
            /\ Value(r).tags = own.tags

=============================================================================
